---- MODULE Spec2Model ----
(***************************************************************************)
(* service-pulse: the API test tool (apiTestTool.execute with its          *)
(* process-wide testCache), its validation rules, and the asynchronous     *)
(* A2A route handler (telexA2AHandler with runAgentAndPushResult).         *)
(*                                                                         *)
(* Conventions.  A JavaScript optional value is a sequence of length 0     *)
(* (undefined) or 1 (the value).  Text that the code searches with         *)
(* String.includes is a sequence of one-character strings.  Time is in     *)
(* abstract clock ticks (Date.now()); synchronous code takes no time, a    *)
(* suspended await may take any number of ticks.                           *)
(***************************************************************************)
EXTENDS Integers, Sequences, FiniteSets, TLC

None == <<>>
Some(x) == <<x>>
IsSome(o) == Len(o) = 1
Get(o) == o[1]

(***************************************************************************)
(* Bounds of the model.                                                    *)
(***************************************************************************)
\* Number of apiTestTool.execute invocations in one behaviour.
MaxCalls == 2
\* Last value of the clock.
MaxTime == 1
\* Number of A2A submissions in one behaviour.
MaxTasks == 2
\* Longest bodyContains list drawn for the validation rules.
MaxListLen == 2

(***************************************************************************)
(* Text.                                                                   *)
(***************************************************************************)
\* String.prototype.includes on character sequences.
Includes(s, t) ==
  \E i \in 1..(Len(s) - Len(t) + 1) : SubSeq(s, i, i + Len(t) - 1) = t

\* The sequences over S of length at most n.
SeqsUpTo(S, n) == UNION {[1..k -> S] : k \in 0..n}

Whitespace == {" ", "\n"}
Letters == {"a", "b"}

RECURSIVE StripWs(_)
StripWs(s) ==
  IF s = <<>> THEN <<>>
  ELSE IF Head(s) \in Whitespace THEN StripWs(Tail(s))
  ELSE <<Head(s)>> \o StripWs(Tail(s))

\* response.json(): the decoded value, or None when decoding throws.  The JSON
\* dialect of the model is the empty object and the object with one member.
JsonParse(raw) ==
  LET t == StripWs(raw) IN
  IF t = <<"{", "}">> THEN Some(<<>>)
  ELSE IF Len(t) = 5 /\ t[1] = "{" /\ t[2] \in Letters /\ t[3] = ":"
          /\ t[4] \in Letters /\ t[5] = "}"
       THEN Some(<<t[2], t[4]>>)
  ELSE None

\* JSON.stringify(value, null, 2).
JsonStringify2(v) ==
  IF v = <<>> THEN <<"{", "}">>
  ELSE <<"{", "\n", " ", " ", v[1], ":", " ", v[2], "\n", "}">>

\* '[Unable to parse response body]'
UnableToParse ==
  <<"[", "U", "n", "a", "b", "l", "e", " ", "t", "o", " ", "p", "a", "r",
    "s", "e", " ", "r", "e", "s", "p", "o", "n", "s", "e", " ", "b", "o",
    "d", "y", "]">>

(***************************************************************************)
(* Media types and header names.                                           *)
(***************************************************************************)
\* contentType.includes(needle), tabulated for the media types of the model.
CtIncludes(ct, needle) ==
  CASE needle = "application/json" -> ct = "application/json"
    [] needle = "json" -> ct \in {"application/json", "application/ld+json"}
    [] needle = "html" -> ct \in {"text/html", "application/xhtml+xml"}
    [] needle = "xml" -> ct \in {"application/xhtml+xml", "application/xml"}
    [] OTHER -> FALSE

\* header.toLowerCase(), tabulated for the header names of the model.
ToLowerCase(h) ==
  CASE h = "X-Id" -> "x-id"
    [] h = "ETag" -> "etag"
    [] OTHER -> h

\* Headers.has throws a TypeError for a name that is no HTTP token.
ValidHeaderName(h) == h # "bad name"

\* response.ok
ResponseOk(status) == status >= 200 /\ status <= 299

(***************************************************************************)
(* Validation rules of apiTestTool.execute.                                *)
(***************************************************************************)
B2N(b) == IF b THEN 1 ELSE 0

\* Number of elements of sequence s whose field f is TRUE.
CountField(s, f) == Cardinality({i \in 1..Len(s) : s[i][f]})

\* const validations: any = {}
NoValidations ==
  [statusCode |-> None, responseTime |-> None, bodyContains |-> None,
   bodyNotContains |-> None, headers |-> None, responseType |-> None]

\* if (expectations.statusCode !== undefined) { ... }
ExactStatusRule(status, e) ==
  IF IsSome(e.statusCode)
  THEN Some([kind |-> "exact", lo |-> Get(e.statusCode), hi |-> Get(e.statusCode),
             actual |-> status, passed |-> status = Get(e.statusCode)])
  ELSE None

RangeStatusRuleIgnored(status, e) == None

\* if (expectations.statusCodeRange) { ... }
RangeStatusRule(status, e) ==
  IF IsSome(e.statusCodeRange)
  THEN LET min == Get(e.statusCodeRange)[1]
           max == Get(e.statusCodeRange)[2]
       IN Some([kind |-> "range", lo |-> min, hi |-> max, actual |-> status,
                passed |-> status >= min /\ status <= max])
  ELSE None

\* if (expectations.maxResponseTime !== undefined) { ... }
ResponseTimeRule(responseTime, e) ==
  IF IsSome(e.maxResponseTime)
  THEN Some([maxAllowed |-> Get(e.maxResponseTime), actual |-> responseTime,
             passed |-> responseTime <= Get(e.maxResponseTime)])
  ELSE None

\* The guard "&& responseBody": an empty string is falsy.
BodyTruthy(responseBody) == responseBody # <<>>

\* if (expectations.bodyContains && responseBody) { ... }
BodyContainsRule(responseBody, e) ==
  IF IsSome(e.bodyContains) /\ BodyTruthy(responseBody)
  THEN LET l == Get(e.bodyContains)
       IN Some([i \in 1..Len(l) |->
                  [text |-> l[i], found |-> Includes(responseBody, l[i])]])
  ELSE None

\* if (expectations.bodyNotContains && responseBody) { ... }
BodyNotContainsRule(responseBody, e) ==
  IF IsSome(e.bodyNotContains) /\ BodyTruthy(responseBody)
  THEN LET l == Get(e.bodyNotContains)
       IN Some([i \in 1..Len(l) |->
                  [text |-> l[i], notFound |-> ~Includes(responseBody, l[i])]])
  ELSE None

\* response.headers.has(header.toLowerCase())
HeaderPresent(headers, header) == ToLowerCase(header) \in headers

\* if (expectations.requiredHeaders) { ... }
RequiredHeadersRule(headers, e) ==
  IF IsSome(e.requiredHeaders)
  THEN LET l == Get(e.requiredHeaders)
       IN Some([i \in 1..Len(l) |->
                  [header |-> l[i], present |-> HeaderPresent(headers, l[i])]])
  ELSE None

\* Headers.has throws for one of the required names.
RequiredHeadersThrow(e) ==
  /\ IsSome(e.requiredHeaders)
  /\ \E i \in 1..Len(Get(e.requiredHeaders)) :
       ~ValidHeaderName(ToLowerCase(Get(e.requiredHeaders)[i]))

\* contentType.includes('json') ? 'json' : ... 'html' ... 'xml' : 'text'
ActualType(contentType) ==
  IF CtIncludes(contentType, "json") THEN "json"
  ELSE IF CtIncludes(contentType, "html") THEN "html"
  ELSE IF CtIncludes(contentType, "xml") THEN "xml"
  ELSE "text"

\* if (expectations.responseType) { ... }
ResponseTypeRule(contentType, e) ==
  IF IsSome(e.responseType)
  THEN Some([expected |-> Get(e.responseType), actual |-> ActualType(contentType),
             passed |-> ActualType(contentType) = Get(e.responseType)])
  ELSE None

OptPassed(o) == IF IsSome(o) THEN B2N(Get(o).passed) ELSE 0
OptLen(o) == IF IsSome(o) THEN Len(Get(o)) ELSE 0
OptCount(o, f) == IF IsSome(o) THEN CountField(Get(o), f) ELSE 0

\* The block "if (expectations) { ... }": the validations object and the two
\* counters, or threw = TRUE when a rule throws.
RunValidations(resp, responseBody, responseTime, expectations) ==
  IF ~IsSome(expectations)
  THEN [threw |-> FALSE, validations |-> NoValidations,
        totalChecks |-> 0, passedChecks |-> 0]
  ELSE
    LET e == Get(expectations)
        sc == ExactStatusRule(resp.status, e)
        rg == RangeStatusRule(resp.status, e)
        rt == ResponseTimeRule(responseTime, e)
        bc == BodyContainsRule(responseBody, e)
        bn == BodyNotContainsRule(responseBody, e)
        hd == RequiredHeadersRule(resp.headers, e)
        ty == ResponseTypeRule(resp.contentType, e)
    IN IF RequiredHeadersThrow(e)
       THEN [threw |-> TRUE, validations |-> NoValidations,
             totalChecks |-> 0, passedChecks |-> 0]
       ELSE
         [threw |-> FALSE,
          validations |->
            [statusCode |-> IF IsSome(rg) THEN rg ELSE sc,
             responseTime |-> rt, bodyContains |-> bc, bodyNotContains |-> bn,
             headers |-> hd, responseType |-> ty],
          totalChecks |->
            B2N(IsSome(sc)) + B2N(IsSome(rg)) + B2N(IsSome(rt)) + OptLen(bc)
            + OptLen(bn) + OptLen(hd) + B2N(IsSome(ty)),
          passedChecks |->
            OptPassed(sc) + OptPassed(rg) + OptPassed(rt)
            + OptCount(bc, "found") + OptCount(bn, "notFound")
            + OptCount(hd, "present") + OptPassed(ty)]

FinalTotalNoFallback(total) == total

\* if (totalChecks === 0) { totalChecks = 1; passedChecks = response.ok ? 1 : 0 }
FinalTotal(total) == IF total = 0 THEN 1 ELSE total
FinalPassed(total, passed, status) ==
  IF total = 0 THEN B2N(ResponseOk(status)) ELSE passed

TestStatusAnyPassed(passed, total) == IF passed > 0 THEN "PASS" ELSE "FAIL"

\* const testStatus = passedChecks === totalChecks ? 'PASS' : 'FAIL'
TestStatus(passed, total) == IF passed = total THEN "PASS" ELSE "FAIL"

\* The body capture: response.json() re-serialized, or response.text(); the
\* placeholder when either throws.
CaptureBody(resp) ==
  IF resp.streamFails THEN UnableToParse
  ELSE IF CtIncludes(resp.contentType, "application/json")
       THEN IF IsSome(JsonParse(resp.raw))
            THEN JsonStringify2(Get(JsonParse(resp.raw)))
            ELSE UnableToParse
       ELSE resp.raw

\* The result object of the try block (a response was obtained and no rule threw).
ResponseResult(req, now, resp, responseTime) ==
  LET responseBody == CaptureBody(resp)
      v == RunValidations(resp, responseBody, responseTime, req.expectations)
      totalChecks == FinalTotal(v.totalChecks)
      passedChecks == FinalPassed(v.totalChecks, v.passedChecks, resp.status)
  IN [testStatus |-> TestStatus(passedChecks, totalChecks),
      cached |-> FALSE,
      timestamp |-> now,
      request |-> [method |-> req.method, url |-> req.url, headers |-> req.headers],
      response |-> Some([statusCode |-> resp.status, headers |-> resp.headers,
                         body |-> responseBody, responseTime |-> responseTime]),
      validations |-> v.validations,
      totalChecks |-> totalChecks,
      passedChecks |-> passedChecks,
      failedChecks |-> totalChecks - passedChecks,
      error |-> None]

ErrorResultNoCheck(req, now, message) ==
  [testStatus |-> "FAIL",
   cached |-> FALSE,
   timestamp |-> now,
   request |-> [method |-> req.method, url |-> req.url, headers |-> req.headers],
   response |-> None,
   validations |-> NoValidations,
   totalChecks |-> 0,
   passedChecks |-> 0,
   failedChecks |-> 0,
   error |-> Some(message)]

\* The result object of the catch block.
ErrorResult(req, now, message) ==
  [testStatus |-> "FAIL",
   cached |-> FALSE,
   timestamp |-> now,
   request |-> [method |-> req.method, url |-> req.url, headers |-> req.headers],
   response |-> None,
   validations |-> NoValidations,
   totalChecks |-> 1,
   passedChecks |-> 0,
   failedChecks |-> 1,
   error |-> Some(message)]

\* What execute returns once fetch has resolved with resp: the try block's
\* result, or the catch block's when a rule throws.
HeaderTypeError == "Headers.has: invalid header name"
ExecuteAfterResponse(req, now, resp, responseTime) ==
  IF IsSome(req.expectations) /\ RequiredHeadersThrow(Get(req.expectations))
  THEN ErrorResult(req, now, HeaderTypeError)
  ELSE ResponseResult(req, now, resp, responseTime)

(***************************************************************************)
(* Inputs.                                                                 *)
(***************************************************************************)
RawBodies ==
  {<<>>, <<"a", "b">>, <<"{", "a", ":", "b", "}">>, <<"{", "a">>}

\* A response as fetch delivers it: the header names are lower-cased, and
\* content-type is among them iff the media type is not empty.
Response(status, ct, extra, raw, fails) ==
  [status |-> status, contentType |-> ct,
   headers |-> extra \cup (IF ct = "" THEN {} ELSE {"content-type"}),
   raw |-> raw, streamFails |-> fails]

Expect(sc, rg, rt, bc, bn, hd, ty) ==
  [statusCode |-> sc, statusCodeRange |-> rg, maxResponseTime |-> rt,
   bodyContains |-> bc, bodyNotContains |-> bn, requiredHeaders |-> hd,
   responseType |-> ty]

Opt(S) == {None} \cup {Some(x) : x \in S}

ValResponses ==
  {Response(st, ct, ex, raw, FALSE) :
     st \in {200, 201, 404},
     ct \in {"", "application/ld+json", "text/html", "application/xhtml+xml",
             "application/xml"},
     ex \in {{}, {"x-id"}}, raw \in {<<>>, <<"a", "b">>}}
  \cup
  {Response(200, "application/json", {}, raw, f) :
     raw \in RawBodies, f \in BOOLEAN}

ValExpectations ==
  {None} \cup
  {Some(Expect(sc, rg, rt, bc, bn, hd, ty)) :
     sc \in Opt({200}), rg \in Opt({<<200, 299>>}), rt \in Opt({1}),
     bc \in Opt(SeqsUpTo({<<"a">>, <<"{">>}, MaxListLen)),
     bn \in Opt({<<<<"b">>>>}),
     hd \in Opt({<<"X-Id">>, <<"etag", "bad name">>}),
     ty \in Opt({"json", "html"})}

(***************************************************************************)
(* State.                                                                  *)
(***************************************************************************)
VARIABLES
  clock,      \* Date.now()
  testCache,  \* the Map testCache: key -> None or Some([timestamp, result])
  calls,      \* the invocations of apiTestTool.execute
  tasks,      \* the submissions to telexA2AHandler and their background runs
  val,        \* one evaluation of the validation rules on a drawn response
  healthCache, \* the module-level object healthCache of health-check-tool.ts
  checks,     \* the invocations of healthCheckTool.execute
  endpoint,   \* what each monitored endpoint answers to a GET at this moment
  ticker,     \* the fields isRunning and intervalId of the TickerAgent
  timers,     \* the interval timers setInterval created and nobody cleared
  ticks,      \* the invocations of TickerAgent.tick
  tickerLog   \* what the calls of start() and stop() did, in order

healthVars == <<healthCache, checks, endpoint>>
tickerVars == <<ticker, timers, ticks, tickerLog>>
toolVars == <<testCache, calls, tasks, val>>
vars == <<clock, testCache, calls, tasks, val, healthCache, checks, endpoint,
          ticker, timers, ticks, tickerLog>>

(***************************************************************************)
(* The validation rules on their own: a response and an expectations       *)
(* object are drawn and the code after "await fetch" is applied to them.   *)
(***************************************************************************)
ValRequest(expectations) ==
  [method |-> "GET", url |-> "https://example.test/ok", headers |-> None,
   body |-> None, expectations |-> expectations, cacheTTL |-> 2, timeout |-> 3]

Validate ==
  /\ val = None
  /\ \E resp \in ValResponses, e \in ValExpectations, responseTime \in 1..2 :
       val' = Some([resp |-> resp, expectations |-> e,
                    responseTime |-> responseTime,
                    result |-> ExecuteAfterResponse(ValRequest(e), 0, resp,
                                                    responseTime)])
  /\ UNCHANGED <<clock, testCache, calls, tasks, healthVars, tickerVars>>

(***************************************************************************)
(* apiTestTool.execute and the cache.                                      *)
(***************************************************************************)
\* JSON.stringify(body || {}): undefined and the empty string both serialize
\* as the empty object, any other body as its quoted text.
SerializeBody(body) ==
  IF body = None \/ body = Some("") THEN <<"{}">> ELSE <<"\"", Get(body), "\"">>

CacheKeyWithHeaders(req) ==
  <<req.method, ":", req.url, ":">> \o SerializeBody(req.body) \o <<req.headers>>

\* const cacheKey = `${method}:${url}:${JSON.stringify(body || {})}`
CacheKey(req) == <<req.method, ":", req.url, ":">> \o SerializeBody(req.body)

E200 == Some(Expect(Some(200), None, Some(1), None, None, None, None))
EBody == Some(Expect(None, Some(<<200, 299>>), None, Some(<<<<"a">>>>), None, None, None))

\* The requests drawn by the model: two that differ only in their expectations,
\* one with a shorter time-to-live, one with another key.
TestRequests ==
  {[method |-> "GET", url |-> "https://example.test/ok", headers |-> None,
    body |-> None, expectations |-> x[1], cacheTTL |-> x[2], timeout |-> 1] :
     x \in {<<None, 2>>, <<E200, 2>>, <<None, 1>>}}
  \cup
  {[method |-> "POST", url |-> "https://example.test/ok", headers |-> Some("auth"),
    body |-> Some("payload"), expectations |-> EBody, cacheTTL |-> 2, timeout |-> 1]}

\* Requests for the key discipline: one GET, the same GET with an Authorization
\* header, the same GET with expectations, and a POST with a body.
KeyRequests ==
  {[method |-> "GET", url |-> "https://example.test/ok", headers |-> x[1],
    body |-> None, expectations |-> x[2], cacheTTL |-> 2, timeout |-> 1] :
     x \in {<<None, None>>, <<Some("auth"), None>>, <<None, E200>>}}
  \cup
  {[method |-> "POST", url |-> "https://example.test/ok", headers |-> Some("auth"),
    body |-> Some("payload"), expectations |-> EBody, cacheTTL |-> 2, timeout |-> 1]}

\* Requests for the body discipline: every method of the input schema, with no
\* body, the empty string and a text.
BodyRequests ==
  {[method |-> m, url |-> "https://example.test/ok", headers |-> None,
    body |-> b, expectations |-> None, cacheTTL |-> 2, timeout |-> 1] :
     m \in {"GET", "POST", "PUT", "DELETE", "PATCH"},
     b \in {None, Some(""), Some("payload")}}

\* The responses the network may deliver to them.
TestResponses ==
  {Response(200, "application/json", {}, <<"{", "a", ":", "b", "}">>, FALSE),
   Response(500, "", {}, <<>>, FALSE)}

NetworkErrors == {"fetch failed"}
TimeoutError == "The operation was aborted due to timeout"

Keys == {CacheKey(r) : r \in TestRequests \cup KeyRequests \cup BodyRequests}
CallIds == 1..MaxCalls

\* A call: its position in execute, its context, the Date.now() it captured,
\* the request it sent, the response it got and the result it returned; and, as
\* history, the calls that were suspended in execute when it was invoked.
IdleCall ==
  [pc |-> "idle", req |-> None, now |-> 0, sent |-> None, resp |-> None,
   responseTime |-> 0, result |-> None, overlaps |-> {}]

\* The calls suspended on "await fetch" or on the body read.
InFlight == {d \in CallIds : calls[d].pc \in {"fetch", "body"}}

IsCacheFreshOffByOne(cached, now, cacheTTL) ==
  IsSome(cached) /\ now - Get(cached).timestamp < cacheTTL - 1

\* const isCacheFresh = cacheAge < cacheTTL, with cacheAge = Infinity for no entry.
IsCacheFresh(cached, now, cacheTTL) ==
  IsSome(cached) /\ now - Get(cached).timestamp < cacheTTL

FetchOptionsAlwaysBody(req) ==
  [method |-> req.method, url |-> req.url, headers |-> req.headers,
   body |-> req.body]

\* The options handed to fetch: the body only for a truthy body and a method
\* other than GET and DELETE.
FetchOptions(req) ==
  [method |-> req.method, url |-> req.url, headers |-> req.headers,
   body |-> IF req.body # None /\ req.body # Some("") /\ req.method # "GET"
               /\ req.method # "DELETE"
            THEN req.body ELSE None]

\* return { ...cached.result, cached: true }
HitResult(cached) == [Get(cached).result EXCEPT !.cached = TRUE]

CacheSetOnlyPass(cache, key, result, now, responseTime) ==
  IF result.testStatus = "PASS"
  THEN [cache EXCEPT ![key] = Some([status |-> result.testStatus, timestamp |-> now,
                                    responseTime |-> responseTime, result |-> result])]
  ELSE cache

\* testCache.set(cacheKey, { status, timestamp: now, responseTime, result })
CacheSet(cache, key, result, now, responseTime) ==
  [cache EXCEPT ![key] = Some([status |-> result.testStatus, timestamp |-> now,
                               responseTime |-> responseTime, result |-> result])]

\* Calls are started in the order of their identifiers.
NextToStart(c) ==
  /\ calls[c].pc = "idle"
  /\ \A d \in CallIds : d < c => calls[d].pc # "idle"

StartHitRefreshes(c, req) ==
  /\ NextToStart(c)
  /\ IsCacheFresh(testCache[CacheKey(req)], clock, req.cacheTTL)
  /\ calls' = [calls EXCEPT ![c] =
                 [IdleCall EXCEPT !.pc = "done", !.req = Some(req), !.now = clock,
                                  !.overlaps = InFlight,
                                  !.result = Some(HitResult(testCache[CacheKey(req)]))]]
  /\ testCache' = [testCache EXCEPT ![CacheKey(req)] =
                      Some([Get(@) EXCEPT !.timestamp = clock])]
  /\ UNCHANGED <<clock, tasks, val, healthVars, tickerVars>>

\* execute, lines 96-110: the entry is fresh and the stored result is returned.
StartHit(c, req) ==
  /\ NextToStart(c)
  /\ IsCacheFresh(testCache[CacheKey(req)], clock, req.cacheTTL)
  /\ calls' = [calls EXCEPT ![c] =
                 [IdleCall EXCEPT !.pc = "done", !.req = Some(req), !.now = clock,
                                  !.overlaps = InFlight,
                                  !.result = Some(HitResult(testCache[CacheKey(req)]))]]
  /\ UNCHANGED <<clock, testCache, tasks, val, healthVars, tickerVars>>

\* execute, lines 96-131: no fresh entry; the request is sent and the call
\* suspends on "await fetch".
StartMiss(c, req) ==
  /\ NextToStart(c)
  /\ ~IsCacheFresh(testCache[CacheKey(req)], clock, req.cacheTTL)
  /\ calls' = [calls EXCEPT ![c] =
                 [IdleCall EXCEPT !.pc = "fetch", !.req = Some(req), !.now = clock,
                                  !.overlaps = InFlight,
                                  !.sent = Some(FetchOptions(req))]]
  /\ UNCHANGED <<clock, testCache, tasks, val, healthVars, tickerVars>>

\* execute, lines 131-133: fetch resolves before the timeout; the call suspends
\* on the body read.
FetchResolve(c, resp) ==
  /\ calls[c].pc = "fetch"
  /\ clock - calls[c].now < Get(calls[c].req).timeout
  /\ calls' = [calls EXCEPT ![c].pc = "body", ![c].resp = Some(resp),
                            ![c].responseTime = clock - calls[c].now]
  /\ UNCHANGED <<clock, testCache, tasks, val, healthVars, tickerVars>>

\* The result a call returns after its body read, and the responseTime it caches
\* (0 from the catch block).
CachedResponseTime(result, responseTime) ==
  IF IsSome(result.error) THEN 0 ELSE responseTime

\* execute, lines 135-287 (and 289-315 when a rule throws): the body is read, the
\* rules run, the result is cached and returned.
BodyDone(c) ==
  /\ calls[c].pc = "body"
  /\ LET req == Get(calls[c].req)
         result == ExecuteAfterResponse(req, calls[c].now, Get(calls[c].resp),
                                        calls[c].responseTime)
     IN /\ testCache' = CacheSet(testCache, CacheKey(req), result, calls[c].now,
                                 CachedResponseTime(result, calls[c].responseTime))
        /\ calls' = [calls EXCEPT ![c].pc = "done", ![c].result = Some(result)]
  /\ UNCHANGED <<clock, tasks, val, healthVars, tickerVars>>

\* execute, lines 289-315: fetch rejects (a transport error before the timeout,
\* the abort signal once it has elapsed); the failure is cached and returned.
FetchReject(c, message) ==
  /\ calls[c].pc = "fetch"
  /\ message = TimeoutError <=> clock - calls[c].now >= Get(calls[c].req).timeout
  /\ LET req == Get(calls[c].req)
         result == ErrorResult(req, calls[c].now, message)
     IN /\ testCache' = CacheSet(testCache, CacheKey(req), result, calls[c].now, 0)
        /\ calls' = [calls EXCEPT ![c].pc = "done", ![c].result = Some(result)]
  /\ UNCHANGED <<clock, tasks, val, healthVars, tickerVars>>

\* Time passes.
Tick ==
  /\ clock < MaxTime
  /\ \A tm \in timers : tm.due > clock
  /\ clock' = clock + 1
  /\ UNCHANGED <<testCache, calls, tasks, val, healthVars, tickerVars>>

(***************************************************************************)
(* telexA2AHandler and runAgentAndPushResult.                              *)
(***************************************************************************)
\* agents: { healthAgent, apiTestAgent }
RegisteredAgents == {"healthAgent", "apiTestAgent"}

TaskIds == 1..MaxTasks

\* randomUUID(): a value no other call site and no other task produces.
RandomUUID(t, site) == <<"uuid", t, site>>
GivenId(s) == <<"given", 0, s>>

\* An inbound request: whether c.req.json() yields an object, and the fields the
\* handler reads from it.
Submission(parsable, requestId, url, token, prompt, agentId, taskId) ==
  [parsable |-> parsable, requestId |-> requestId, url |-> url, token |-> token,
   prompt |-> prompt, agentId |-> agentId, taskId |-> taskId]

ValidSubmissions ==
  {Submission(TRUE, cb[1], Some(cb[2]), Some(cb[3]), Some("test the api"), a, tid) :
     cb \in {<<"req-1", "https://cb.test/1", "token-1">>,
             <<"req-2", "https://cb.test/2", "token-2">>},
     a \in {"apiTestAgent", "ghostAgent"},
     tid \in {None, Some(GivenId("task-1"))}}

InvalidSubmissions ==
  {Submission(FALSE, "req-1", None, None, None, "apiTestAgent", None)}
  \cup
  {Submission(TRUE, "req-1", url, Some("token-1"), Some("test the api"),
              "apiTestAgent", None) : url \in {None, Some("")}}
  \cup
  {Submission(TRUE, "req-1", Some("https://cb.test/1"), token, Some("test the api"),
              "apiTestAgent", None) : token \in {None, Some("")}}
  \cup
  {Submission(TRUE, "req-1", Some("https://cb.test/1"), Some("token-1"), prompt,
              "apiTestAgent", Some(GivenId("task-1"))) : prompt \in {None, Some("")}}

Submissions == ValidSubmissions \cup InvalidSubmissions

FalsyOnlyUndefined(o) == o = None

\* !x for an optional string: undefined and the empty string are falsy.
Falsy(o) == o = None \/ o = Some("")

\* The error the handler's try block throws for a submission, or None.
HandlerError(sub) ==
  IF ~sub.parsable THEN Some("Unexpected end of JSON input")
  ELSE IF Falsy(sub.url) \/ Falsy(sub.token)
       THEN Some("Missing pushNotificationConfig in request")
  ELSE IF Falsy(sub.prompt)
       THEN Some("Could not find main prompt in message.parts[0].text")
  ELSE None

\* c.json({ status: "error", status_code: 500, ... }, 500)
ErrorResponse(details) ==
  [status |-> "error", status_code |-> 500, message |-> "Internal Server Error",
   task_id |-> None, details |-> Some(details)]

\* c.json({ status: "success", status_code: 202, ... }, 202)
AcceptedResponse(t, sub) ==
  [status |-> "success", status_code |-> 202, message |-> "request received",
   task_id |-> Some(IF IsSome(sub.taskId) THEN Get(sub.taskId)
                    ELSE RandomUUID(t, "task_id")),
   details |-> None]

CallbackPushShared(t, sub, agentText) ==
  [url |-> "https://cb.test/1", bearer |-> "token-1", id |-> "req-1",
   resultId |-> IF IsSome(sub.taskId) THEN Get(sub.taskId)
                ELSE RandomUUID(t, "result.id"),
   state |-> "completed", text |-> agentText]

\* The outbound POST of step 5: its address, its bearer token and resultPayload.
CallbackPush(t, sub, agentText) ==
  [url |-> Get(sub.url), bearer |-> Get(sub.token), id |-> sub.requestId,
   resultId |-> IF IsSome(sub.taskId) THEN Get(sub.taskId)
                ELSE RandomUUID(t, "result.id"),
   state |-> "completed", text |-> agentText]

IdleTask ==
  [sub |-> None, ack |-> None, bg |-> "none", agentDone |-> FALSE, pushes |-> <<>>]

BackgroundStartAlwaysRuns(sub) == "running"

\* The state of the background run when the handler returns: mastra.getAgent
\* finds no agent and the catch block ends the run, or agent.generate is pending.
BackgroundStart(sub) ==
  IF sub.agentId \in RegisteredAgents THEN "running" ELSE "failed"

AckAfterRun(t, sub) == None

\* The response the handler returns for a valid submission, in the step that
\* started the background run.
AckOnSubmit(t, sub) == Some(AcceptedResponse(t, sub))

NextToSubmit(t) ==
  /\ tasks[t].sub = None
  /\ \A u \in TaskIds : u < t => tasks[u].sub # None

\* The handler, from the parsed body to its return: a submission that fails a
\* check is answered from the outer catch block.
SubmitInvalid(t, sub) ==
  /\ NextToSubmit(t)
  /\ IsSome(HandlerError(sub))
  /\ tasks' = [tasks EXCEPT ![t] =
                 [IdleTask EXCEPT !.sub = Some(sub),
                                  !.ack = Some(ErrorResponse(Get(HandlerError(sub))))]]
  /\ UNCHANGED <<clock, testCache, calls, val, healthVars, tickerVars>>

\* The handler for a submission that passes the checks: runAgentAndPushResult()
\* is called without await and 202 is returned.
SubmitValid(t, sub) ==
  /\ NextToSubmit(t)
  /\ HandlerError(sub) = None
  /\ tasks' = [tasks EXCEPT ![t] =
                 [IdleTask EXCEPT !.sub = Some(sub), !.ack = AckOnSubmit(t, sub),
                                  !.bg = BackgroundStart(sub)]]
  /\ UNCHANGED <<clock, testCache, calls, val, healthVars, tickerVars>>

\* What the catch block of runAgentAndPushResult sends to the callback: nothing.
PushOnFailure(t, sub, pushes) == pushes

PushRetried(t, sub, pushes) == Append(pushes, pushes[Len(pushes)])

\* What a rejected callback POST leads to: the catch block, which sends nothing.
PushOnRejectedPush(t, sub, pushes) == pushes

\* agent.generate resolves: the payload is built and POSTed to the callback.
AgentResolve(t, agentText) ==
  /\ tasks[t].bg = "running"
  /\ tasks' = [tasks EXCEPT ![t].bg = "pushing", ![t].agentDone = TRUE,
                            ![t].pushes = Append(@, CallbackPush(t, Get(tasks[t].sub),
                                                                 agentText))]
  /\ UNCHANGED <<clock, testCache, calls, val, healthVars, tickerVars>>

\* agent.generate rejects: the catch block logs the error.
AgentReject(t) ==
  /\ tasks[t].bg = "running"
  /\ tasks' = [tasks EXCEPT ![t].bg = "failed", ![t].agentDone = TRUE,
                            ![t].pushes = PushOnFailure(t, Get(tasks[t].sub), @)]
  /\ UNCHANGED <<clock, testCache, calls, val, healthVars, tickerVars>>

\* The callback POST resolves (whatever its HTTP status).
PushResolve(t) ==
  /\ tasks[t].bg = "pushing"
  /\ tasks' = [tasks EXCEPT ![t].bg = "completed"]
  /\ UNCHANGED <<clock, testCache, calls, val, healthVars, tickerVars>>

\* The callback POST rejects: the catch block logs the error.
PushReject(t) ==
  /\ tasks[t].bg = "pushing"
  /\ tasks' = [tasks EXCEPT ![t].bg = "failed",
                            ![t].pushes = PushOnRejectedPush(t, Get(tasks[t].sub), @)]
  /\ UNCHANGED <<clock, testCache, calls, val, healthVars, tickerVars>>

(***************************************************************************)
(* healthCheckTool.execute and the object healthCache.  Time is counted in *)
(* ticker intervals (60000 ms).                                            *)
(***************************************************************************)
MaxChecks == 2

\* intervalMs: number = 60000, the unit of time of this part.
IntervalMs == 1
\* cacheTTL: z.number().default(300000), five ticker intervals.
DefaultCacheTTL == 5
\* Date.now() at the start of the process: a positive number.
StartTime == 1
DateNow == StartTime + clock

HealthUrls == {"https://a.test/health", "https://b.test/health"}
HealthTTLs == {IntervalMs, DefaultCacheTTL}
CheckIds == 1..MaxChecks

\* What fetch meets: a response with a status, or a rejection with a message.
HttpAnswer(status) == [responds |-> TRUE, status |-> status, message |-> ""]
FetchError(message) == [responds |-> FALSE, status |-> 0, message |-> message]
HealthAnswers ==
  {HttpAnswer(s) : s \in {200, 299, 300, 500}}
    \cup {FetchError(m) : m \in NetworkErrors}

\* new Date(t).toISOString()
ToISOString(t) == <<"iso", t>>

PresetHealthCache == [status |-> Some("UP"), timestamp |-> None, lastError |-> None]

\* const healthCache = { status: null, timestamp: null, lastError: null }
EmptyHealthCache == [status |-> None, timestamp |-> None, lastError |-> None]

\* An invocation of execute: where it stands, its context, the "now" it read,
\* what its fetch met, what it returned, and its place among the writes of
\* healthCache (0: it has not written).
IdleCheck ==
  [pc |-> "idle", targetUrl |-> "", cacheTTL |-> 0, now |-> 0, answer |-> None,
   result |-> None, wseq |-> 0]

\* const cacheAge = healthCache.timestamp ? now - healthCache.timestamp : Infinity;
\* const isCacheFresh = cacheAge < cacheTTL;
HealthCacheFresh(cache, now, cacheTTL) ==
  /\ cache.timestamp # None
  /\ Get(cache.timestamp) # 0
  /\ now - Get(cache.timestamp) < cacheTTL

\* if (isCacheFresh && healthCache.status !== null)
HealthCacheHit(cache, now, cacheTTL) ==
  HealthCacheFresh(cache, now, cacheTTL) /\ cache.status # None

\* The object returned on a cache hit; cacheAge is Math.round(cacheAge / 1000).
CachedHealthResult(cache, now) ==
  [status |-> Get(cache.status), cached |-> TRUE,
   cacheAge |-> Some(((now - Get(cache.timestamp)) * 60000) \div 1000),
   timestamp |-> ToISOString(Get(cache.timestamp)),
   httpStatus |-> None, statusChanged |-> None, error |-> None]

\* const newStatus = response.ok ? 'UP' : 'DOWN'
NewStatus(status) == IF ResponseOk(status) THEN "UP" ELSE "DOWN"

StatusChangedNever(prev, newStatus) == FALSE

\* const statusChanged = healthCache.status !== null && healthCache.status !== newStatus
StatusChanged(prev, newStatus) == prev # None /\ Get(prev) # newStatus

StatusChangedOnErrorAlways(prev) == TRUE

\* catch block: const statusChanged = healthCache.status !== 'DOWN'
StatusChangedOnError(prev) == prev # Some("DOWN")

\* The object returned after a response.
ResponseHealthResult(cache, now, status) ==
  [status |-> NewStatus(status), cached |-> FALSE, cacheAge |-> None,
   timestamp |-> ToISOString(now), httpStatus |-> Some(status),
   statusChanged |-> Some(StatusChanged(cache.status, NewStatus(status))),
   error |-> None]

\* The object returned from the catch block.
ErrorHealthResult(cache, now, message) ==
  [status |-> "DOWN", cached |-> FALSE, cacheAge |-> None,
   timestamp |-> ToISOString(now), httpStatus |-> None,
   statusChanged |-> Some(StatusChangedOnError(cache.status)),
   error |-> Some(message)]

HealthCacheSetKeepError(cache, status, now, lastError) ==
  [status |-> Some(status), timestamp |-> Some(now),
   lastError |-> IF lastError = None THEN cache.lastError ELSE lastError]

\* healthCache.status = ...; healthCache.timestamp = now; healthCache.lastError = ...
HealthCacheSet(cache, status, now, lastError) ==
  [status |-> Some(status), timestamp |-> Some(now), lastError |-> lastError]

\* Checks are started in the order of their identifiers.
NextCheck(c) ==
  /\ checks[c].pc = "idle"
  /\ \A d \in CheckIds : d < c => checks[d].pc # "idle"

\* The place of the next write of healthCache among all writes.
NextWrite == Cardinality({d \in CheckIds : checks[d].wseq > 0}) + 1

ExecuteHitRefreshes(c, targetUrl, cacheTTL) ==
  /\ NextCheck(c)
  /\ HealthCacheHit(healthCache, DateNow, cacheTTL)
  /\ checks' = [checks EXCEPT ![c] =
                  [IdleCheck EXCEPT !.pc = "done", !.targetUrl = targetUrl,
                                    !.cacheTTL = cacheTTL, !.now = DateNow,
                                    !.result = Some(CachedHealthResult(healthCache,
                                                                       DateNow))]]
  /\ healthCache' = [healthCache EXCEPT !.timestamp = Some(DateNow)]
  /\ UNCHANGED <<clock, endpoint, toolVars>>

\* execute, lines 28-43: the cell is fresh and holds a status, which is returned.
ExecuteHit(c, targetUrl, cacheTTL) ==
  /\ NextCheck(c)
  /\ HealthCacheHit(healthCache, DateNow, cacheTTL)
  /\ checks' = [checks EXCEPT ![c] =
                  [IdleCheck EXCEPT !.pc = "done", !.targetUrl = targetUrl,
                                    !.cacheTTL = cacheTTL, !.now = DateNow,
                                    !.result = Some(CachedHealthResult(healthCache,
                                                                       DateNow))]]
  /\ UNCHANGED <<clock, healthCache, endpoint, toolVars>>

\* execute, lines 28-55: no fresh status; the GET is sent and the check suspends
\* on "await fetch".
ExecuteMiss(c, targetUrl, cacheTTL) ==
  /\ NextCheck(c)
  /\ ~HealthCacheHit(healthCache, DateNow, cacheTTL)
  /\ checks' = [checks EXCEPT ![c] =
                  [IdleCheck EXCEPT !.pc = "fetch", !.targetUrl = targetUrl,
                                    !.cacheTTL = cacheTTL, !.now = DateNow]]
  /\ UNCHANGED <<clock, healthCache, endpoint, toolVars>>

\* execute, lines 56-77: fetch resolves; the status is derived, compared with the
\* stored one, stored and returned.
HealthFetchResolve(c, answer) ==
  /\ checks[c].pc = "fetch"
  /\ answer.responds
  /\ healthCache' = HealthCacheSet(healthCache, NewStatus(answer.status),
                                   checks[c].now, None)
  /\ checks' = [checks EXCEPT
                  ![c].pc = "done", ![c].answer = Some(answer), ![c].wseq = NextWrite,
                  ![c].result = Some(ResponseHealthResult(healthCache, checks[c].now,
                                                          answer.status))]
  /\ UNCHANGED <<clock, endpoint, toolVars, tickerVars>>

\* execute, lines 78-98: fetch rejects (transport error or the 10 s abort); DOWN
\* and the message are stored and returned.
HealthFetchReject(c, answer) ==
  /\ checks[c].pc = "fetch"
  /\ ~answer.responds
  /\ healthCache' = HealthCacheSet(healthCache, "DOWN", checks[c].now,
                                   Some(answer.message))
  /\ checks' = [checks EXCEPT
                  ![c].pc = "done", ![c].answer = Some(answer), ![c].wseq = NextWrite,
                  ![c].result = Some(ErrorHealthResult(healthCache, checks[c].now,
                                                       answer.message))]
  /\ UNCHANGED <<clock, endpoint, toolVars, tickerVars>>

\* A caller (an agent run on behalf of a user) invokes the tool.
CallHealthCheck(c, targetUrl, cacheTTL) ==
  /\ ExecuteHit(c, targetUrl, cacheTTL) \/ ExecuteMiss(c, targetUrl, cacheTTL)
  /\ UNCHANGED tickerVars

(***************************************************************************)
(* TickerAgent, its ticks, and triggerHealthCheck.                         *)
(***************************************************************************)
MaxTicks == 2
MaxStarts == 2

\* new TickerAgent(targetUrl): the endpoint the ticker watches.
TickerTarget == "https://a.test/health"
\* What that endpoint may answer.
TickerAnswers == {HttpAnswer(200), HttpAnswer(500)}

TickIds == 1..MaxTicks

\* An invocation of tick(): where it stands, when and how it was fired (by
\* start() or by the interval timer), the timer of the run it belongs to, what
\* the endpoint answered at that moment, the tool invocation made for it (0:
\* none) and the error its catch block logged.
IdleTick ==
  [pc |-> "idle", firedAt |-> 0, by |-> "", run |-> 0, endpointAt |-> HttpAnswer(200),
   check |-> 0, caught |-> None]

FreeTick(t) ==
  /\ ticks[t].pc = "idle"
  /\ \A u \in TickIds : u < t => ticks[u].pc # "idle"

\* tick() up to "await triggerHealthCheck": healthAgent.generate is under way.
FireTick(t, by, run) ==
  [ticks EXCEPT ![t] = [IdleTick EXCEPT !.pc = "generate", !.firedAt = clock,
                                        !.by = by, !.run = run,
                                        !.endpointAt = endpoint]]

\* One call of start() or stop(): what it logged and whether it threw.
LogEntry(op, did) == [op |-> op, did |-> did, threw |-> FALSE]

\* The log of the ticker: how many timers setInterval has created so far, and
\* what the last call of start() or stop() did.
EmptyLog == [created |-> 0, last |-> LogEntry("", "")]
Logged(log, op, did) == [log EXCEPT !.last = LogEntry(op, did)]
Created(log, op, did) == [created |-> log.created + 1, last |-> LogEntry(op, did)]

\* setInterval returns a timer no earlier call returned.
NewTimerId == tickerLog.created + 1

StartAgainRestarts ==
  /\ ticker.isRunning
  /\ tickerLog.created < MaxStarts
  /\ tickerLog' = Created(tickerLog, "start", "Already running")
  /\ timers' = timers \cup {[id |-> NewTimerId, due |-> clock + IntervalMs]}
  /\ ticker' = [ticker EXCEPT !.intervalId = Some(NewTimerId)]
  /\ UNCHANGED ticks
  /\ UNCHANGED <<clock, toolVars, healthVars>>

\* start(), lines 15-21: the ticker is running; a warning is logged.
StartAgain ==
  /\ ticker.isRunning
  /\ tickerLog' = Logged(tickerLog, "start", "Already running")
  /\ UNCHANGED <<ticker, timers, ticks>>
  /\ UNCHANGED <<clock, toolVars, healthVars>>

StartNoImmediateTick(t) ==
  /\ ~ticker.isRunning
  /\ tickerLog.created < MaxStarts
  /\ FreeTick(t)
  /\ tickerLog' = Created(tickerLog, "start", "Starting")
  /\ ticker' = [isRunning |-> TRUE, intervalId |-> Some(NewTimerId)]
  /\ ticks' = ticks
  /\ timers' = timers \cup {[id |-> NewTimerId, due |-> clock + IntervalMs]}
  /\ UNCHANGED <<clock, toolVars, healthVars>>

\* start(), lines 15-33: isRunning is set, tick() is called, and setInterval
\* schedules tick() every intervalMs.
Start(t) ==
  /\ ~ticker.isRunning
  /\ tickerLog.created < MaxStarts
  /\ FreeTick(t)
  /\ tickerLog' = Created(tickerLog, "start", "Starting")
  /\ ticker' = [isRunning |-> TRUE, intervalId |-> Some(NewTimerId)]
  /\ ticks' = FireTick(t, "start", NewTimerId)
  /\ timers' = timers \cup {[id |-> NewTimerId, due |-> clock + IntervalMs]}
  /\ UNCHANGED <<clock, toolVars, healthVars>>

\* stop(), lines 36-41: the ticker is not running; a warning is logged.
StopAgain ==
  /\ ~ticker.isRunning
  /\ tickerLog' = Logged(tickerLog, "stop", "Not running")
  /\ UNCHANGED <<ticker, timers, ticks>>
  /\ UNCHANGED <<clock, toolVars, healthVars>>

StopKeepsTimer ==
  /\ ticker.isRunning
  /\ tickerLog' = Logged(tickerLog, "stop", "Stopping")
  /\ ticker' = [isRunning |-> FALSE, intervalId |-> None]
  /\ UNCHANGED <<timers, ticks>>
  /\ UNCHANGED <<clock, toolVars, healthVars>>

\* stop(), lines 36-50: the interval timer is cleared and isRunning reset.
Stop ==
  /\ ticker.isRunning
  /\ tickerLog' = Logged(tickerLog, "stop", "Stopping")
  /\ timers' = IF ticker.intervalId # None
               THEN {tm \in timers : tm.id # Get(ticker.intervalId)}
               ELSE timers
  /\ ticker' = [isRunning |-> FALSE, intervalId |-> None]
  /\ UNCHANGED ticks
  /\ UNCHANGED <<clock, toolVars, healthVars>>

TimerFireWaits(tm, t) ==
  /\ tm \in timers
  /\ tm.due <= clock
  /\ FreeTick(t)
  /\ \A u \in TickIds : ticks[u].pc # "generate"
  /\ ticks' = FireTick(t, "interval", tm.id)
  /\ timers' = (timers \ {tm}) \cup {[tm EXCEPT !.due = tm.due + IntervalMs]}
  /\ UNCHANGED <<ticker, tickerLog>>
  /\ UNCHANGED <<clock, toolVars, healthVars>>

\* The callback of setInterval: the timer is due and calls tick().
TimerFire(tm, t) ==
  /\ tm \in timers
  /\ tm.due <= clock
  /\ FreeTick(t)
  /\ ticks' = FireTick(t, "interval", tm.id)
  /\ timers' = (timers \ {tm}) \cup {[tm EXCEPT !.due = tm.due + IntervalMs]}
  /\ UNCHANGED <<ticker, tickerLog>>
  /\ UNCHANGED <<clock, toolVars, healthVars>>

\* healthAgent.generate: the agent invokes the health-check tool for the
\* ticker's target.
AgentToolCall(t, c, cacheTTL) ==
  /\ ticks[t].pc = "generate"
  /\ ticks[t].check = 0
  /\ ExecuteHit(c, TickerTarget, cacheTTL) \/ ExecuteMiss(c, TickerTarget, cacheTTL)
  /\ ticks' = [ticks EXCEPT ![t].check = c]
  /\ UNCHANGED <<ticker, timers, tickerLog>>

\* The tool invocation a tick waits for has returned (or there is none).
ToolReturned(t) ==
  IF ticks[t].check = 0 THEN TRUE ELSE checks[ticks[t].check].pc = "done"

TickRejectStopsTicker(t, message) ==
  /\ ticks[t].pc = "generate"
  /\ ToolReturned(t)
  /\ ticks' = [ticks EXCEPT ![t].pc = "done", ![t].caught = Some(message)]
  /\ ticker' = [isRunning |-> FALSE, intervalId |-> None]
  /\ timers' = {}
  /\ UNCHANGED tickerLog
  /\ UNCHANGED <<clock, toolVars, healthVars>>

\* triggerHealthCheck, lines 57-62, and tick(), lines 60-63: generate rejects,
\* triggerHealthCheck logs and rethrows, the catch block of tick() logs.
TickReject(t, message) ==
  /\ ticks[t].pc = "generate"
  /\ ToolReturned(t)
  /\ ticks' = [ticks EXCEPT ![t].pc = "done", ![t].caught = Some(message)]
  /\ UNCHANGED <<ticker, timers, tickerLog>>
  /\ UNCHANGED <<clock, toolVars, healthVars>>

\* triggerHealthCheck, lines 41-56, and tick(), line 65: generate resolves.
TickResolve(t) ==
  /\ ticks[t].pc = "generate"
  /\ ToolReturned(t)
  /\ ticks' = [ticks EXCEPT ![t].pc = "done"]
  /\ UNCHANGED <<ticker, timers, tickerLog>>
  /\ UNCHANGED <<clock, toolVars, healthVars>>

\* The watched endpoint starts answering something else.
EndpointChange(answer) ==
  /\ endpoint # answer
  /\ endpoint' = answer
  /\ UNCHANGED <<clock, healthCache, checks, toolVars, tickerVars>>

(***************************************************************************)
(* Specifications.                                                         *)
(***************************************************************************)
Init ==
  /\ clock = 0
  /\ testCache = [k \in Keys |-> None]
  /\ calls = [c \in CallIds |-> IdleCall]
  /\ tasks = [t \in TaskIds |-> IdleTask]
  /\ val = None
  /\ healthCache = EmptyHealthCache
  /\ checks = [c \in CheckIds |-> IdleCheck]
  /\ endpoint = HttpAnswer(200)
  /\ ticker = [isRunning |-> FALSE, intervalId |-> None]
  /\ timers = {}
  /\ ticks = [t \in TickIds |-> IdleTick]
  /\ tickerLog = EmptyLog

NextTest ==
  \/ \E c \in CallIds, req \in TestRequests : StartHit(c, req)
  \/ \E c \in CallIds, req \in TestRequests : StartMiss(c, req)
  \/ \E c \in CallIds, resp \in TestResponses : FetchResolve(c, resp)
  \/ \E c \in CallIds : BodyDone(c)
  \/ \E c \in CallIds, m \in NetworkErrors \cup {TimeoutError} : FetchReject(c, m)
  \/ Tick

NextKeys ==
  \/ \E c \in CallIds, req \in KeyRequests : StartHit(c, req)
  \/ \E c \in CallIds, req \in KeyRequests : StartMiss(c, req)
  \/ \E c \in CallIds, resp \in TestResponses : FetchResolve(c, resp)
  \/ \E c \in CallIds : BodyDone(c)
  \/ \E c \in CallIds, m \in NetworkErrors \cup {TimeoutError} : FetchReject(c, m)
  \/ Tick

NextBody ==
  \/ \E c \in CallIds, req \in BodyRequests : StartHit(c, req)
  \/ \E c \in CallIds, req \in BodyRequests : StartMiss(c, req)
  \/ \E c \in CallIds : FetchResolve(c, Response(500, "", {}, <<>>, FALSE))
  \/ \E c \in CallIds : BodyDone(c)
  \/ \E c \in CallIds, m \in NetworkErrors : FetchReject(c, m)

NextA2A ==
  \/ \E t \in TaskIds, sub \in Submissions : SubmitInvalid(t, sub)
  \/ \E t \in TaskIds, sub \in Submissions : SubmitValid(t, sub)
  \/ \E t \in TaskIds, text \in {"", "report"} : AgentResolve(t, text)
  \/ \E t \in TaskIds : AgentReject(t)
  \/ \E t \in TaskIds : PushResolve(t)
  \/ \E t \in TaskIds : PushReject(t)

NextVal == Validate

NextHealth ==
  \/ \E c \in CheckIds, u \in HealthUrls, ttl \in HealthTTLs :
       CallHealthCheck(c, u, ttl)
  \/ \E c \in CheckIds, a \in HealthAnswers : HealthFetchResolve(c, a)
  \/ \E c \in CheckIds, a \in HealthAnswers : HealthFetchReject(c, a)
  \/ Tick

NextTicker ==
  \/ \E t \in TickIds : Start(t)
  \/ StartAgain
  \/ Stop
  \/ StopAgain
  \/ \E tm \in timers, t \in TickIds : TimerFire(tm, t)
  \/ \E t \in TickIds : TickResolve(t)
  \/ \E t \in TickIds : TickReject(t, "model unavailable")
  \/ Tick

NextMonitor ==
  \/ \E t \in TickIds : Start(t)
  \/ \E tm \in timers, t \in TickIds : TimerFire(tm, t)
  \/ \E t \in TickIds, c \in CheckIds, ttl \in HealthTTLs : AgentToolCall(t, c, ttl)
  \/ \E c \in CheckIds : HealthFetchResolve(c, endpoint)
  \/ \E t \in TickIds : TickResolve(t)
  \/ \E a \in TickerAnswers : EndpointChange(a)
  \/ Tick

\* The API test tool under concurrent invocations.
SpecTest == Init /\ [][NextTest]_vars
\* The API test tool under requests that differ in headers or expectations only.
SpecKeys == Init /\ [][NextKeys]_vars
\* The API test tool under requests of every method, with and without a body,
\* within one instant of the clock.
SpecBody == Init /\ [][NextBody]_vars
\* The A2A handler under concurrent submissions.
SpecA2A == Init /\ [][NextA2A]_vars
\* The validation rules applied to one drawn response.
SpecVal == Init /\ [][NextVal]_vars
\* The health check tool under concurrent invocations for two targets.
SpecHealth == Init /\ [][NextHealth]_vars
\* The ticker under calls of start() and stop(), and its ticks.
SpecTicker == Init /\ [][NextTicker]_vars
\* A started ticker, the health checks the agent makes for its ticks, and the
\* endpoint they reach.
SpecMonitor == Init /\ [][NextMonitor]_vars

(***************************************************************************)
(* Properties of the API test tool (SpecTest).                             *)
(***************************************************************************)
Started == {c \in CallIds : calls[c].pc # "idle"}
Done == {c \in CallIds : calls[c].pc = "done"}
KeyOf(c) == CacheKey(Get(calls[c].req))
TTLOf(c) == Get(calls[c].req).cacheTTL
\* The call sent a request to the network.
Performed(c) == calls[c].sent # None
\* The started calls that use key k.
CallsOn(k) == {c \in Started : KeyOf(c) = k}
\* No call of S was suspended in execute when another call of S was invoked.
NonOverlapping(S) == \A d \in S : calls[d].overlaps \cap S = {}
First(S) == CHOOSE p \in S : \A d \in S : p <= d

\* The calls on key k form a sequence as C1 describes: they do not overlap, they
\* use one cacheTTL, and each later one is issued less than cacheTTL after the
\* first one, which performed the request.
OneWindow(k) ==
  LET S == CallsOn(k) IN
  /\ S # {}
  /\ NonOverlapping(S)
  /\ \A c, d \in S : TTLOf(c) = TTLOf(d)
  /\ \A d \in S : calls[d].now - calls[First(S)].now < TTLOf(d)

\* C1: in a sequence of non-overlapping calls on one key with one cacheTTL, each
\* issued less than cacheTTL after the call that performed the request, only the
\* first call sends a request; every later call has returned cached = true and a
\* result that is otherwise the first call's result.
C1_OneRequestPerWindow ==
  \A k \in Keys :
    OneWindow(k) =>
      LET S == CallsOn(k)
          p == First(S)
      IN /\ Performed(p)
         /\ \A d \in S \ {p} :
              /\ ~Performed(d)
              /\ calls[d].pc = "done" /\ calls[p].pc = "done"
              /\ Get(calls[d].result).cached
              /\ Get(calls[d].result) = [Get(calls[p].result) EXCEPT !.cached = TRUE]

\* A window with a performing call and a later call served from the cache.
C1_Witness ==
  \E k \in Keys :
    /\ OneWindow(k)
    /\ Cardinality(CallsOn(k)) >= 2
    /\ \A c \in CallsOn(k) : calls[c].pc = "done"
    /\ \E d \in CallsOn(k) : calls[d].now > calls[First(CallsOn(k))].now

\* C2: two calls on one key that overlap (the second is invoked while the first
\* is suspended, before it has written its result) never both send a request.
C2_OverlappingCallsNeverBothMiss ==
  \A c, d \in Started :
    (c \in calls[d].overlaps /\ KeyOf(c) = KeyOf(d)) => ~(Performed(c) /\ Performed(d))

\* The call's fetch was rejected: a request was sent and no response arrived.
FetchFailed(c) == calls[c].pc = "done" /\ Performed(c) /\ calls[c].resp = None

\* C7: a call whose fetch rejects (transport error or timeout) returns a result
\* with testStatus FAIL, totalChecks 1, passedChecks 0, failedChecks 1,
\* cached false and a non-empty error string.
C7_ErrorPathResult ==
  \A c \in CallIds :
    FetchFailed(c) =>
      /\ IsSome(calls[c].result)
      /\ LET r == Get(calls[c].result)
         IN /\ r.testStatus = "FAIL"
            /\ r.totalChecks = 1 /\ r.passedChecks = 0 /\ r.failedChecks = 1
            /\ r.cached = FALSE
            /\ IsSome(r.error) /\ Get(r.error) # ""

\* Both causes have occurred: a transport error and a timeout.
C7_Witness ==
  \E c, d \in CallIds :
    /\ FetchFailed(c) /\ Get(calls[c].result).error = Some(TimeoutError)
    /\ FetchFailed(d) /\ Get(calls[d].result).error \in {Some(m) : m \in NetworkErrors}

\* Call c wrote the entry that call d found: c returned before d was invoked and
\* every other call that sent a request on the key returned before c was invoked.
LastWriterBefore(c, d) ==
  /\ c < d /\ KeyOf(c) = KeyOf(d)
  /\ calls[c].pc = "done" /\ Performed(c) /\ c \notin calls[d].overlaps
  /\ \A e \in CallsOn(KeyOf(c)) \ {c, d} :
       (Performed(e) /\ e < d) => (e < c /\ e \notin calls[c].overlaps)

\* C8: after a call that ended FAIL (a transport error or failed rules), a later
\* call on the same key issued within its cacheTTL of that call returns that
\* FAIL result with cached = true and sends no request.
C8_FailureIsCached ==
  \A c, d \in Started :
    ( /\ LastWriterBefore(c, d)
      /\ Get(calls[c].result).testStatus = "FAIL"
      /\ calls[d].now - calls[c].now < TTLOf(d) )
    => /\ calls[d].pc = "done"
       /\ ~Performed(d)
       /\ Get(calls[d].result) = [Get(calls[c].result) EXCEPT !.cached = TRUE]
       /\ Get(calls[d].result).testStatus = "FAIL"

\* Both kinds of failure have been served from the cache.
C8_Witness ==
  \E c, d \in Done :
    /\ LastWriterBefore(c, d)
    /\ calls[d].now - calls[c].now < TTLOf(d)
    /\ Get(calls[d].result).cached
    /\ Get(calls[d].result).testStatus = "FAIL"
    /\ IsSome(Get(calls[d].result).response)
    /\ calls[d].now > calls[c].now

\* C9: every returned result has 0 <= passedChecks <= totalChecks,
\* totalChecks >= 1, failedChecks = totalChecks - passedChecks, and
\* testStatus PASS exactly when passedChecks = totalChecks.
C9_CheckCounters ==
  \A c \in Done :
    LET r == Get(calls[c].result) IN
    /\ 0 <= r.passedChecks /\ r.passedChecks <= r.totalChecks
    /\ r.totalChecks >= 1
    /\ r.failedChecks = r.totalChecks - r.passedChecks
    /\ (r.testStatus = "PASS") <=> (r.passedChecks = r.totalChecks)

\* A fresh result that passed two checks has been returned, and a cached copy.
C9_Witness ==
  \E c, d \in Done :
    /\ Get(calls[c].result).cached
    /\ ~Get(calls[d].result).cached
    /\ Get(calls[d].result).totalChecks = 2
    /\ Get(calls[d].result).testStatus = "PASS"

(***************************************************************************)
(* Properties of the A2A handler (SpecA2A).                                *)
(***************************************************************************)
Handled == {t \in TaskIds : tasks[t].sub # None}
Accepted(t) == t \in Handled /\ Get(tasks[t].ack).status_code = 202
\* The background run has ended: completed, or failed in its catch block.
Terminal(t) == tasks[t].bg \in {"completed", "failed"}

\* C3: every task acknowledged with 202 whose background run has ended, whether
\* it completed or failed, has caused exactly one callback push.
C3_EveryAcceptedTaskPushesOnce ==
  \A t \in TaskIds : (Accepted(t) /\ Terminal(t)) => Len(tasks[t].pushes) = 1

\* C4: a task causes at most one callback push, and a push has been attempted
\* only for a task that was acknowledged with 202 and whose agent run has
\* finished; a rejected push is followed by no second push.
C4_AtMostOnePushAfterAckAndRun ==
  \A t \in TaskIds :
    /\ Len(tasks[t].pushes) <= 1
    /\ Len(tasks[t].pushes) = 1 =>
         /\ Accepted(t)
         /\ tasks[t].agentDone
         /\ tasks[t].bg \in {"pushing", "completed", "failed"}

\* A push was rejected and the run has ended with that one push, while the task
\* submitted after it has pushed and the one before it has not yet.
C4_Witness ==
  \E t, u \in TaskIds :
    /\ t < u
    /\ tasks[u].bg = "failed" /\ Len(tasks[u].pushes) = 1
    /\ tasks[t].bg = "running" /\ tasks[t].pushes = <<>>

ValidSubmission(sub) ==
  /\ sub.parsable
  /\ sub.url # None /\ sub.url # Some("")
  /\ sub.token # None /\ sub.token # Some("")
  /\ sub.prompt # None /\ sub.prompt # Some("")

\* C6: a valid submission has its 202 acknowledgement as soon as the handler has
\* run, whatever the state of its background run and of every other task's.
C6_AckWithoutWaiting ==
  \A t \in Handled :
    ValidSubmission(Get(tasks[t].sub)) =>
      /\ IsSome(tasks[t].ack)
      /\ Get(tasks[t].ack).status_code = 202
      /\ Get(tasks[t].ack).status = "success"
      /\ IsSome(Get(tasks[t].ack).task_id)

\* A second submission was acknowledged while the first task's agent run and the
\* second's are both still pending.
C6_Witness ==
  \E t, u \in TaskIds :
    /\ t < u
    /\ Accepted(t) /\ tasks[t].bg = "running" /\ ~tasks[t].agentDone
    /\ Accepted(u) /\ tasks[u].bg = "running"

(***************************************************************************)
(* Properties of the validation rules (SpecVal).                           *)
(***************************************************************************)
\* The number of rule instances an expectations object declares: one for each
\* of statusCode, statusCodeRange, maxResponseTime and responseType, one for
\* each element of bodyContains, bodyNotContains and requiredHeaders.
DeclaredRules(expectations) ==
  IF expectations = None THEN 0
  ELSE LET e == Get(expectations) IN
       Len(e.statusCode) + Len(e.statusCodeRange) + Len(e.maxResponseTime)
       + Len(e.responseType)
       + (IF e.bodyContains = None THEN 0 ELSE Len(Get(e.bodyContains)))
       + (IF e.bodyNotContains = None THEN 0 ELSE Len(Get(e.bodyNotContains)))
       + (IF e.requiredHeaders = None THEN 0 ELSE Len(Get(e.requiredHeaders)))

\* C10: for every response and every expectations object with N declared rule
\* instances, the result has totalChecks = N, or totalChecks = 1 when N = 0
\* (stated for the results of the try block; a rule that throws ends in the
\* catch block with totalChecks = 1 whatever N is).
C10_TotalChecksEqualsDeclared ==
  (val # None /\ Get(val).result.error = None) =>
    LET n == DeclaredRules(Get(val).expectations) IN
    Get(val).result.totalChecks = (IF n = 0 THEN 1 ELSE n)

(***************************************************************************)
(* Properties of the health check tool.                                    *)
(***************************************************************************)
\* The checks that took the cache-miss path to its end and wrote healthCache.
Written == {c \in CheckIds : checks[c].wseq > 0}
HealthResultOf(c) == Get(checks[c].result)
\* The checks that returned from the cache.
ServedFromCache == {c \in CheckIds : checks[c].pc = "done" /\ checks[c].wseq = 0}
\* Check d made the observation immediately preceding the one of check c.
Preceding(d, c) == d \in Written /\ checks[d].wseq + 1 = checks[c].wseq

\* C11: a check reports statusChanged = true only if an observation immediately
\* precedes its own and stored a status other than the one it observed; the
\* first observation, a response or an error, does not report a change.
C11_ChangeOnlyOnDifferingObservation ==
  \A c \in Written :
    HealthResultOf(c).statusChanged = Some(TRUE)
      => \E d \in Written :
           Preceding(d, c) /\ HealthResultOf(d).status # HealthResultOf(c).status

\* The check that wrote healthCache last.
LastWritten(c) == c \in Written /\ \A d \in Written : checks[d].wseq <= checks[c].wseq
\* What the fetch of a written check met.
AnswerOf(c) == Get(checks[c].answer)

\* C12: a check that took the cache-miss path returns UP exactly when its fetch
\* obtained a response with a status in 200..299, and DOWN otherwise; after a
\* rejected fetch it returns DOWN with the error message.  The last such check
\* left its status in healthCache, with lastError the error message after a
\* rejection and null after a response.
C12_MissPathStatus ==
  \A c \in Written :
    LET r == HealthResultOf(c)
        a == AnswerOf(c)
    IN /\ r.status \in {"UP", "DOWN"}
       /\ r.status = "UP" <=> (a.responds /\ a.status \in 200..299)
       /\ ~r.cached
       /\ ~a.responds => r.status = "DOWN" /\ r.error = Some(a.message)
       /\ a.responds => r.httpStatus = Some(a.status) /\ r.error = None
       /\ LastWritten(c) =>
            /\ healthCache.status = Some(r.status)
            /\ healthCache.lastError = IF a.responds THEN None ELSE Some(a.message)

\* A rejected fetch stored DOWN with its message, and a later check that obtained
\* the response 299 stored UP and cleared lastError.
C12_Witness ==
  \E c, d \in Written :
    /\ Preceding(d, c)
    /\ ~AnswerOf(d).responds
    /\ AnswerOf(c) = HttpAnswer(299)
    /\ healthCache.status = Some("UP")
    /\ healthCache.lastError = None

(***************************************************************************)
(* Properties of the ticker and of the checks made for its ticks.          *)
(***************************************************************************)
Fired == {t \in TickIds : ticks[t].pc # "idle"}
\* The tool invocation made for tick t has returned.
TickHasResult(t) == t \in Fired /\ ticks[t].check # 0 /\ checks[ticks[t].check].pc = "done"
TickResult(t) == HealthResultOf(ticks[t].check)
\* Tick u is the tick of the same run one interval after tick t.
ConsecutiveTicks(t, u) ==
  /\ t \in Fired /\ u \in Fired
  /\ ticks[t].run = ticks[u].run
  /\ ticks[u].firedAt = ticks[t].firedAt + IntervalMs
\* The check made for tick t reached the endpoint and met the given status.
TickObserved(t, status) ==
  /\ TickHasResult(t)
  /\ ticks[t].check \in Written
  /\ AnswerOf(ticks[t].check) = HttpAnswer(status)
\* The endpoint answered the given status when tick t fired, and to the check
\* made for it if that check reached the endpoint.
EndpointAnswers(t, status) ==
  /\ TickHasResult(t)
  /\ ticks[t].endpointAt = HttpAnswer(status)
  /\ ticks[t].check \in Written => AnswerOf(ticks[t].check) = HttpAnswer(status)

\* C13 as stated: the endpoint answers 200 at one tick and 500 at the next tick;
\* then the result of the second tick has status DOWN and statusChanged = true.
C13_SecondTickReportsChange ==
  \A t, u \in TickIds :
    ConsecutiveTicks(t, u) /\ TickObserved(t, 200) /\ EndpointAnswers(u, 500)
      => /\ TickResult(u).status = "DOWN"
         /\ TickResult(u).statusChanged = Some(TRUE)

\* C13, amended: the check of one tick observed 200 and the check of the next
\* tick took the cache-miss path, observed 500 and wrote right after it; then
\* the result of the second tick has status DOWN and statusChanged = true.  A
\* second tick served from the cache returns the stored status with
\* cached = true and without statusChanged.
C13_StaleSecondTickReportsChange ==
  \A t, u \in TickIds :
    ConsecutiveTicks(t, u) /\ TickObserved(t, 200) /\ TickHasResult(u)
      => /\ (TickObserved(u, 500) /\ Preceding(ticks[t].check, ticks[u].check))
              => /\ TickResult(u).status = "DOWN"
                 /\ TickResult(u).statusChanged = Some(TRUE)
                 /\ ~TickResult(u).cached
         /\ ticks[u].check \in ServedFromCache
              => /\ TickResult(u).cached
                 /\ TickResult(u).statusChanged = None
                 /\ \E c \in Written : TickResult(u).status = HealthResultOf(c).status

\* The first tick observed 200, and the second, its check made with a cacheTTL
\* of one interval, observed 500.
C13_Witness ==
  \E t, u \in TickIds :
    /\ ConsecutiveTicks(t, u) /\ TickObserved(t, 200) /\ TickObserved(u, 500)
    /\ Preceding(ticks[t].check, ticks[u].check)
    /\ checks[ticks[u].check].cacheTTL = IntervalMs

\* C14: a check served from the cache returns a status that a check for the
\* same target URL observed and stored: its result carries the status and the
\* timestamp of a written check with its own targetUrl.
C14_CachedStatusIsOfSameTarget ==
  \A c \in ServedFromCache :
    \E d \in Written :
      /\ checks[d].targetUrl = checks[c].targetUrl
      /\ HealthResultOf(c).status = HealthResultOf(d).status
      /\ HealthResultOf(c).timestamp = ToISOString(checks[d].now)

\* C15: healthCache.status is null exactly as long as no check has completed the
\* cache-miss path; once a check has written it, it is UP or DOWN in every later
\* state.
C15_StatusLeavesNullForGood ==
  /\ healthCache.status = None <=> Written = {}
  /\ healthCache.status \in {None, Some("UP"), Some("DOWN")}
  /\ healthCache.status = None => healthCache.timestamp = None

\* Two checks have written the cell, the second after a rejected fetch.
C15_Witness ==
  \E c, d \in Written :
    /\ Preceding(d, c)
    /\ ~AnswerOf(c).responds
    /\ healthCache.status = Some("DOWN")

\* A step in which start() or stop() was called and logged something new.
Called(op) == tickerLog' # tickerLog /\ tickerLog'.last.op = op

\* C16: start() on a running ticker and stop() on a stopped ticker change neither
\* isRunning nor intervalId, create and clear no interval timer, fire no tick,
\* and do not throw; they only log a warning.
C16_StartStopIdempotent ==
  [][/\ (ticker.isRunning /\ Called("start"))
          => /\ ticker' = ticker /\ timers' = timers /\ ticks' = ticks
             /\ tickerLog'.created = tickerLog.created
             /\ tickerLog'.last = LogEntry("start", "Already running")
     /\ (~ticker.isRunning /\ Called("stop"))
          => /\ ticker' = ticker /\ timers' = timers /\ ticks' = ticks
             /\ tickerLog'.created = tickerLog.created
             /\ tickerLog'.last = LogEntry("stop", "Not running")]_vars

\* start() was called on the running ticker: one timer, one tick.
C16_Witness ==
  /\ ticker.isRunning
  /\ tickerLog.last = LogEntry("start", "Already running")
  /\ Cardinality(timers) = 1
  /\ Cardinality(Fired) = 1

\* The ticks of the run that created interval timer r.
TicksOfRun(r) == {t \in Fired : ticks[t].run = r}

\* A live timer has fired exactly one tick for each interval elapsed since the
\* start() that created it, at the moments start + k * intervalMs, after the one
\* tick fired by start() itself; its next firing is at most one interval away.
RunSchedule ==
  \A tm \in timers :
    LET S == TicksOfRun(tm.id)
        n == Cardinality(S)
    IN \E s \in S :
         /\ ticks[s].by = "start"
         /\ tm.due = ticks[s].firedAt + n * IntervalMs
         /\ tm.due >= clock /\ tm.due <= clock + IntervalMs
         /\ \A u \in S \ {s} :
              /\ ticks[u].by = "interval"
              /\ \E k \in 1..(n - 1) : ticks[u].firedAt = ticks[s].firedAt + k * IntervalMs
         /\ \A u, v \in S : u # v => ticks[u].firedAt # ticks[v].firedAt

\* A step that starts the stopped ticker fires exactly one tick, at once.
StartFiresNow ==
  (~ticker.isRunning /\ ticker'.isRunning)
    => \E t \in TickIds :
         /\ ticks[t].pc = "idle" /\ ticks'[t].pc = "generate"
         /\ ticks'[t].by = "start" /\ ticks'[t].firedAt = clock
         /\ \A u \in TickIds \ {t} : ticks'[u] = ticks[u]

\* While the ticker is stopped, and in the step that stops it, no tick begins.
StoppedFiresNothing ==
  ~ticker'.isRunning => \A t \in TickIds : ticks[t].pc = "idle" => ticks'[t].pc = "idle"

\* C17: start() on a stopped ticker fires one tick immediately and then one tick
\* per interval for as long as the ticker is not stopped; once stop() has
\* returned no tick begins until start() is called again, and that start()
\* again fires a tick immediately.
C17_TickSchedule ==
  /\ [](RunSchedule /\ (~ticker.isRunning => timers = {}))
  /\ [][StartFiresNow /\ StoppedFiresNothing]_vars

\* The ticker was started, stopped and started again: each start() fired its
\* own immediate tick.
C17_Witness ==
  \E t, u \in Fired :
    /\ t # u
    /\ ticks[t].by = "start" /\ ticks[u].by = "start"
    /\ ticks[t].run # ticks[u].run
    /\ ticker.isRunning

\* A step in which the health check of tick t failed: triggerHealthCheck
\* rejected and the tick ended in its catch block.
TickFailed(t) ==
  ticks[t].pc = "generate" /\ ticks'[t].pc = "done" /\ ticks'[t].caught # None

\* C18: when the health check of a tick fails, the tick logs the error and ends:
\* nothing is thrown to the timer or to the caller of start(), the ticker stays
\* running with the same interval timer, due at the same moment, and the other
\* ticks are untouched; the timer then fires the following ticks on schedule.
C18_FailedTickIsSwallowed ==
  /\ [][\A t \in TickIds :
          TickFailed(t)
            => /\ ticker' = ticker /\ timers' = timers /\ tickerLog' = tickerLog
               /\ \A u \in TickIds \ {t} : ticks'[u] = ticks[u]]_vars
  /\ [](\A t \in Fired :
          ticks[t].caught # None
            => /\ ticks[t].pc = "done"
               /\ (ticker.isRunning /\ ticker.intervalId = Some(ticks[t].run)
                     => \E tm \in timers : tm.id = ticks[t].run /\ tm.due >= clock))
  /\ []RunSchedule

\* The immediate tick failed, and one interval later the timer of the same run
\* fired the next tick.
C18_Witness ==
  \E t, u \in Fired :
    /\ ticks[t].caught # None
    /\ ticks[u].by = "interval"
    /\ ticks[u].run = ticks[t].run
    /\ ticks[u].firedAt = ticks[t].firedAt + IntervalMs
    /\ ticker.isRunning

(***************************************************************************)
(* Further properties of the API test tool's cache.                        *)
(***************************************************************************)
\* A step in which call c is invoked.
Invoked(c) == calls[c].pc = "idle" /\ calls'[c].pc # "idle"

\* C19: a call reads the entry of its key as fresh exactly when the entry exists
\* and (time of the call - stored timestamp) < cacheTTL; at an age equal to
\* cacheTTL it is stale and the call sends a new request.  Only a read compares
\* ages: the passing of time changes no entry, and an entry, once present, is
\* never removed, only overwritten.
C19_FreshIffYoungerThanTTL ==
  /\ [][\A c \in CallIds :
          Invoked(c)
            => LET req == Get(calls'[c].req)
                   entry == testCache[CacheKey(req)]
                   fresh == entry # None /\ clock - Get(entry).timestamp < req.cacheTTL
               IN /\ fresh => /\ calls'[c].pc = "done"
                              /\ Get(calls'[c].result).cached
                              /\ calls'[c].sent = None
                  /\ ~fresh => /\ calls'[c].pc = "fetch"
                               /\ calls'[c].sent # None
                  /\ testCache' = testCache]_vars
  /\ [][clock' # clock => testCache' = testCache]_vars
  /\ [][\A k \in Keys : testCache[k] # None => testCache'[k] # None]_vars

\* An entry was read at an age equal to the cacheTTL of the reading call, which
\* sent a new request.
C19_Witness ==
  \E c, d \in Started :
    /\ d \in Done /\ Performed(d) /\ d \notin calls[c].overlaps /\ d < c
    /\ KeyOf(c) = KeyOf(d)
    /\ testCache[KeyOf(c)] # None
    /\ calls[c].now - calls[d].now = TTLOf(c)
    /\ Performed(c)

\* Requests r and q agree on method, url and serialized body.
SameKeyFields(r, q) ==
  r.method = q.method /\ r.url = q.url /\ SerializeBody(r.body) = SerializeBody(q.body)
ReqOf(c) == Get(calls[c].req)
\* Call d stored the entry that call c reads: the requests agree on method, url
\* and serialized body, d sent a request and returned before c was invoked, and
\* every other call that sent such a request before c returned before d was
\* invoked.
StoredFor(d, c) ==
  /\ d < c /\ SameKeyFields(ReqOf(d), ReqOf(c))
  /\ calls[d].pc = "done" /\ Performed(d) /\ d \notin calls[c].overlaps
  /\ \A e \in Started \ {c, d} :
       (SameKeyFields(ReqOf(e), ReqOf(c)) /\ Performed(e) /\ e < c)
         => (e < d /\ e \notin calls[d].overlaps)

\* C20: the entry a call reads is determined by method, url and serialized body
\* alone.  A call issued within its cacheTTL of the call that stored the entry
\* for these three sends no request and returns the stored result (validations
\* and counts included) with cached = true, whatever its headers and
\* expectations; and a call served from the cache is served the result of a
\* call that agrees with it on the three.
C20_KeyIsMethodUrlBody ==
  /\ \A c, d \in Started :
       (StoredFor(d, c) /\ calls[c].now - calls[d].now < TTLOf(c))
         => /\ calls[c].pc = "done"
            /\ ~Performed(c)
            /\ Get(calls[c].result) = [Get(calls[d].result) EXCEPT !.cached = TRUE]
            /\ Get(calls[c].result).validations = Get(calls[d].result).validations
            /\ Get(calls[c].result).totalChecks = Get(calls[d].result).totalChecks
  /\ \A c \in Done :
       ~Performed(c)
         => \E d \in Done :
              /\ d < c /\ Performed(d) /\ SameKeyFields(ReqOf(d), ReqOf(c))
              /\ Get(calls[c].result) = [Get(calls[d].result) EXCEPT !.cached = TRUE]

\* A request with expectations was served the result stored for the same request
\* without expectations.
C20_Witness ==
  \E c, d \in Done :
    /\ StoredFor(d, c) /\ ~Performed(c)
    /\ ReqOf(d).expectations = None /\ ReqOf(c).expectations = E200
    /\ ReqOf(d).headers = ReqOf(c).headers
    /\ Get(calls[c].result).totalChecks = 1
    /\ Get(calls[c].result).cached

(***************************************************************************)
(* Further properties of the validation rules.                             *)
(***************************************************************************)
\* The drawn evaluation ended in the try block (no rule threw).
Evaluated == val # None /\ Get(val).result.error = None
ValResult == Get(val).result
ValExpect == Get(Get(val).expectations)
\* The expectations declare a non-empty bodyContains or bodyNotContains list.
DeclaresBodyRules ==
  /\ Get(val).expectations # None
  /\ \/ ValExpect.bodyContains \notin {None, Some(<<>>)}
     \/ ValExpect.bodyNotContains \notin {None, Some(<<>>)}

\* C21: when reading the response body failed, the result records no outcome for
\* bodyContains and bodyNotContains and counts no check for them: totalChecks is
\* what the same expectations without the two lists give.
C21_UncapturedBodySkipsBodyRules ==
  (Evaluated /\ Get(val).resp.streamFails /\ DeclaresBodyRules)
    => /\ ValResult.validations.bodyContains = None
       /\ ValResult.validations.bodyNotContains = None
       /\ ValResult.totalChecks =
            FinalTotal(RunValidations(Get(val).resp, <<>>, Get(val).responseTime,
                                      Get(val).expectations).totalChecks)

\* The drawn expectations declare both statusCode and statusCodeRange.
DeclaresBothStatusRules ==
  /\ Get(val).expectations # None
  /\ ValExpect.statusCode # None /\ ValExpect.statusCodeRange # None
\* What the same response gives when the expectations lack the field statusCode.
WithoutExactStatus ==
  RunValidations(Get(val).resp, Get(val).result.response[1].body,
                 Get(val).responseTime,
                 Some([ValExpect EXCEPT !.statusCode = None]))

\* C22: with both statusCode and statusCodeRange declared, validations.statusCode
\* holds the outcome of the range rule (expected "lo-hi", passed iff lo <=
\* status <= hi) and nothing of the exact rule, while totalChecks and passedChecks
\* count both rules: they exceed by one, and by one iff the status equals
\* statusCode, what the expectations without statusCode give.
C22_RangeOverwritesExactSlot ==
  (Evaluated /\ DeclaresBothStatusRules)
    => LET slot == Get(ValResult.validations.statusCode)
           st == Get(val).resp.status
           lo == Get(ValExpect.statusCodeRange)[1]
           hi == Get(ValExpect.statusCodeRange)[2]
       IN /\ slot.kind = "range" /\ slot.lo = lo /\ slot.hi = hi /\ slot.actual = st
          /\ slot.passed <=> (st >= lo /\ st <= hi)
          /\ ValResult.validations = WithoutExactStatus.validations
          /\ ValResult.totalChecks = WithoutExactStatus.totalChecks + 1
          /\ ValResult.passedChecks =
               WithoutExactStatus.passedChecks
               + (IF st = Get(ValExpect.statusCode) THEN 1 ELSE 0)

\* Status 201 with statusCode 200 and statusCodeRange [200, 299]: the slot shows
\* a passed range rule, and the failed exact rule is counted.
C22_Witness ==
  /\ Evaluated /\ DeclaresBothStatusRules
  /\ Get(val).resp.status = 201
  /\ ValExpect.maxResponseTime = None /\ ValExpect.bodyContains = None
  /\ ValExpect.bodyNotContains = None /\ ValExpect.requiredHeaders = None
  /\ ValExpect.responseType = None
  /\ Get(ValResult.validations.statusCode).passed
  /\ ValResult.totalChecks = 2 /\ ValResult.passedChecks = 1
  /\ ValResult.testStatus = "FAIL"

\* The drawn response declares application/json and its body, read without a
\* stream failure, is no JSON text.
UndecodableJson ==
  /\ val # None
  /\ CtIncludes(Get(val).resp.contentType, "application/json")
  /\ ~Get(val).resp.streamFails
  /\ JsonParse(Get(val).resp.raw) = None

\* C29: when the response declares a JSON media type and its body cannot be
\* decoded, the result is not the error result, its response body is the raw
\* text of the response, and the bodyContains outcomes are those of the raw text.
C29_DecodeFailureDegradesToRawText ==
  UndecodableJson
    => /\ ValResult.error = None
       /\ Get(ValResult.response).body = Get(val).resp.raw
       /\ (Get(val).expectations # None /\ Get(val).resp.raw # <<>>)
            => ValResult.validations.bodyContains
                 = BodyContainsRule(Get(val).resp.raw, ValExpect)

\* Every element of an optional list of outcomes has field f true.
AllTrue(o, f) == o = None \/ \A i \in 1..Len(Get(o)) : Get(o)[i][f]
\* Every outcome recorded in the validations object v is passing.
AllRecordedPass(v) ==
  /\ v.statusCode = None \/ Get(v.statusCode).passed
  /\ v.responseTime = None \/ Get(v.responseTime).passed
  /\ v.responseType = None \/ Get(v.responseType).passed
  /\ AllTrue(v.bodyContains, "found")
  /\ AllTrue(v.bodyNotContains, "notFound")
  /\ AllTrue(v.headers, "present")
\* The validations object v records at least one outcome.
RecordsOutcome(v) ==
  \/ v.statusCode # None \/ v.responseTime # None \/ v.responseType # None
  \/ v.bodyContains \notin {None, Some(<<>>)}
  \/ v.bodyNotContains \notin {None, Some(<<>>)}
  \/ v.headers \notin {None, Some(<<>>)}

\* C30 as stated: a result of the try block that records at least one outcome
\* has testStatus PASS iff every recorded outcome is passing.
C30_PassIffAllRecordedPass ==
  (Evaluated /\ RecordsOutcome(ValResult.validations))
    => (ValResult.testStatus = "PASS" <=> AllRecordedPass(ValResult.validations))

\* C30, amended: such a result has testStatus PASS iff every recorded outcome is
\* passing and, when statusCode and statusCodeRange are both declared, the
\* status also equals statusCode (the exact outcome is counted but overwritten
\* in the validations object).
C30_PassIffAllCountedPass ==
  (Evaluated /\ RecordsOutcome(ValResult.validations))
    => (ValResult.testStatus = "PASS"
          <=> /\ AllRecordedPass(ValResult.validations)
              /\ DeclaresBothStatusRules
                   => Get(val).resp.status = Get(ValExpect.statusCode))

\* A FAIL with all recorded outcomes passing (the overwritten exact rule failed),
\* among rules of several kinds.
C30_Witness ==
  /\ Evaluated /\ DeclaresBothStatusRules
  /\ ValResult.testStatus = "FAIL"
  /\ AllRecordedPass(ValResult.validations)
  /\ ValResult.validations.bodyContains \notin {None, Some(<<>>)}
  /\ ValResult.validations.headers # None

(***************************************************************************)
(* Further properties of the A2A handler.                                  *)
(***************************************************************************)
\* The callback pushes sent for task t.
PushesOf(t) == {tasks[t].pushes[i] : i \in 1..Len(tasks[t].pushes)}

\* C23: every callback push of a task is sent to the callback URL of that task's
\* own submission, with that submission's bearer token and the id of that
\* submission's request, whatever other tasks are in flight; a push never goes
\* to the callback URL or carries the token of another task's submission unless
\* the two submissions supplied the same one.
C23_PushUsesOwnCallback ==
  \A t \in Handled :
    \A p \in PushesOf(t) :
      /\ p.url = Get(Get(tasks[t].sub).url)
      /\ p.bearer = Get(Get(tasks[t].sub).token)
      /\ p.id = Get(tasks[t].sub).requestId
      /\ \A u \in Handled \ {t} :
           /\ Get(tasks[u].sub).url # Get(tasks[t].sub).url
                => Get(tasks[u].sub).url # Some(p.url)
           /\ Get(tasks[u].sub).token # Get(tasks[t].sub).token
                => Get(tasks[u].sub).token # Some(p.bearer)

\* Two tasks with different callbacks: the later one has pushed its result
\* while the agent of the earlier one is still running.
C23_Witness ==
  \E t, u \in Handled :
    /\ t < u
    /\ tasks[t].bg = "running"
    /\ Len(tasks[u].pushes) = 1
    /\ Get(tasks[t].sub).url # Get(tasks[u].sub).url
    /\ Get(tasks[t].sub).token # Get(tasks[u].sub).token
    /\ tasks[u].pushes[1].url = Get(Get(tasks[u].sub).url)

\* A step in which call c is invoked and served from the cache.
InvokedAsHit(c) == Invoked(c) /\ calls'[c].pc = "done"
\* The entry of key k is what a call that sent a request wrote: its timestamp is
\* the Date.now() that call captured and its result is the one that call
\* returned, with cached = false.
WrittenByMiss(k) ==
  \E d \in Done :
    /\ Performed(d) /\ KeyOf(d) = k
    /\ Get(testCache[k]).timestamp = calls[d].now
    /\ Get(testCache[k]).result = Get(calls[d].result)
    /\ ~Get(testCache[k]).result.cached

\* C24: a step in which a call is served from the cache changes no entry; every
\* entry holds the timestamp and the result (cached = false) of the call that
\* wrote it; and a call issued cacheTTL or more after the call that wrote the
\* entry sends a new request, however many calls were served in between.
C24_HitLeavesCacheUnchanged ==
  /\ [][\A c \in CallIds : InvokedAsHit(c) => testCache' = testCache]_vars
  /\ [](\A k \in Keys : testCache[k] # None => WrittenByMiss(k))
  /\ [](\A c, d \in Started :
          (LastWriterBefore(d, c) /\ calls[c].now - calls[d].now >= TTLOf(c))
            => Performed(c))

\* A call was served from the cache one tick after the write: the entry still
\* has the writer's timestamp and a result with cached = false.
C24_Witness ==
  \E c, d \in Done :
    /\ LastWriterBefore(d, c) /\ ~Performed(c)
    /\ calls[c].now > calls[d].now
    /\ Get(calls[c].result).cached
    /\ Get(testCache[KeyOf(c)]).timestamp = calls[d].now
    /\ ~Get(testCache[KeyOf(c)]).result.cached


(***************************************************************************)
(* Further properties of the health check tool.                            *)
(***************************************************************************)
\* A step in which check c is invoked.
CheckInvoked(c) == checks[c].pc = "idle" /\ checks'[c].pc # "idle"
\* The cell is fresh for the check invoked in this step: it holds a status and
\* its age at the invocation is below the check's cacheTTL.
FreshAtInvocation(c) ==
  /\ healthCache.status # None
  /\ healthCache.timestamp # None
  /\ checks'[c].now - Get(healthCache.timestamp) < checks'[c].cacheTTL

\* C25: a check invoked while the cell is fresh returns in the same step without
\* sending a request, leaves status, timestamp and lastError as they are, and
\* returns cached = true with the stored status and the stored timestamp.
C25_FreshCellIsServed ==
  [][\A c \in CheckIds :
       (CheckInvoked(c) /\ FreshAtInvocation(c)) =>
         /\ healthCache' = healthCache
         /\ checks'[c].pc = "done"
         /\ checks'[c].answer = None
         /\ checks'[c].wseq = 0
         /\ Get(checks'[c].result).cached
         /\ Get(checks'[c].result).status = Get(healthCache.status)
         /\ Get(checks'[c].result).timestamp = ToISOString(Get(healthCache.timestamp))
    ]_vars

\* A check was served one interval after the write, under the default TTL: the
\* cell still has the writer's status and timestamp, and the result carries them.
C25_Witness ==
  \E c \in ServedFromCache, d \in Written :
    /\ checks[c].now > checks[d].now
    /\ checks[c].cacheTTL = DefaultCacheTTL
    /\ healthCache.timestamp = Some(checks[d].now)
    /\ healthCache.status = Some(HealthResultOf(d).status)
    /\ HealthResultOf(c).cached
    /\ HealthResultOf(c).status = HealthResultOf(d).status
    /\ HealthResultOf(c).timestamp = ToISOString(checks[d].now)


\* C26: in the order of the writes of healthCache, a check whose write follows
\* another check's write reports statusChanged = true exactly when its status
\* differs from the one that write had stored, so each change between UP and DOWN
\* is reported by the check that made it and a write that keeps the status
\* reports false; a check served from the cache reports no change.
C26_ChangeReportedByItsWriter ==
  /\ \A c, d \in Written :
       Preceding(d, c) =>
         HealthResultOf(c).statusChanged
           = Some(HealthResultOf(d).status # HealthResultOf(c).status)
  /\ \A c \in ServedFromCache : HealthResultOf(c).statusChanged # Some(TRUE)

\* Two overlapping checks: c was invoked first, d wrote first, and c's write then
\* changed the status and reported the change.
C26_Witness ==
  \E c, d \in Written :
    /\ c < d
    /\ Preceding(d, c)
    /\ HealthResultOf(d).status = "UP"
    /\ HealthResultOf(c).status = "DOWN"
    /\ HealthResultOf(c).statusChanged = Some(TRUE)


(***************************************************************************)
(* Further properties of the API test tool.                                *)
(***************************************************************************)
\* C27: the stored timestamp of a key never decreases, so the entry of a key is
\* never older than any write already made for it: for every call that sent a
\* request and returned, the entry's timestamp is at least that call's "now".
C27_TimestampNeverDecreases ==
  \A c \in Done :
    Performed(c) =>
      /\ testCache[KeyOf(c)] # None
      /\ Get(testCache[KeyOf(c)]).timestamp >= calls[c].now


\* The caller of call c supplied a non-empty body.
SuppliedBody(c) == ReqOf(c).body # None /\ ReqOf(c).body # Some("")
\* The request call c handed to fetch.
SentBy(c) == Get(calls[c].sent)

\* C28: the request handed to fetch carries a body exactly when the caller
\* supplied a non-empty body and the method is neither GET nor DELETE, and the
\* body carried is the caller's; for GET and DELETE no body is carried.
C28_BodyCarriedIffAllowed ==
  \A c \in Started :
    Performed(c) =>
      /\ SentBy(c).body # None
           <=> (SuppliedBody(c) /\ ReqOf(c).method \notin {"GET", "DELETE"})
      /\ SentBy(c).body # None => SentBy(c).body = ReqOf(c).body
      /\ ReqOf(c).method \in {"GET", "DELETE"} => SentBy(c).body = None
      /\ SentBy(c).method = ReqOf(c).method

\* A DELETE with a body was sent without it while a PUT with the same body
\* carried it.
C28_Witness ==
  \E c, d \in Started :
    /\ Performed(c) /\ Performed(d)
    /\ ReqOf(c).method = "DELETE" /\ ReqOf(c).body = Some("payload")
    /\ SentBy(c).body = None
    /\ ReqOf(d).method = "PUT" /\ ReqOf(d).body = Some("payload")
    /\ SentBy(d).body = Some("payload")


\* C31: the cell holds a status exactly when it holds a timestamp, and it holds
\* an error message only with the status DOWN.
C31_CellFieldsAgree ==
  /\ healthCache.status = None <=> healthCache.timestamp = None
  /\ healthCache.lastError # None => healthCache.status = Some("DOWN")

\* Two overlapping checks: d, invoked second, stored UP first; c then met a
\* rejected fetch and stored DOWN with its message and its own timestamp.
C31_Witness ==
  \E c, d \in Written :
    /\ c < d
    /\ Preceding(d, c)
    /\ AnswerOf(d).responds /\ HealthResultOf(d).status = "UP"
    /\ ~AnswerOf(c).responds
    /\ healthCache.status = Some("DOWN")
    /\ healthCache.timestamp = Some(checks[c].now)
    /\ healthCache.lastError = Some(AnswerOf(c).message)


(***************************************************************************)
(* Further properties of the ticker.                                       *)
(***************************************************************************)
\* getStatus().running
Running == ticker.isRunning

\* C32: at most one interval timer exists, one exists exactly when the ticker
\* is running, and it is the timer the ticker holds in intervalId.
C32_OneTimerIffRunning ==
  /\ Cardinality(timers) <= 1
  /\ timers # {} <=> Running
  /\ \A tm \in timers : ticker.intervalId = Some(tm.id)
  /\ ~Running => ticker.intervalId = None

\* start(), stop() and start() again: the ticker runs on its second timer, and
\* the first one is gone.
C32_Witness ==
  /\ Running
  /\ tickerLog.created = 2
  /\ Cardinality(timers) = 1
  /\ \A tm \in timers : tm.id = 2


\* The ticks whose health check has not returned yet.
TicksInFlight == {t \in TickIds : ticks[t].pc = "generate"}

\* C33: a due interval timer begins a tick whatever the earlier ticks are doing
\* (as long as the model has a tick left to use), a step that stops the ticker
\* changes no tick, and a tick in flight can complete whether or not the ticker
\* is still running.
C33_TicksAreIndependent ==
  /\ [](\A tm \in timers :
          (tm.due <= clock /\ \E t \in TickIds : FreeTick(t))
            => ENABLED (\E t \in TickIds : TimerFire(tm, t)))
  /\ [][(ticker.isRunning /\ ~ticker'.isRunning) => ticks' = ticks]_vars
  /\ [](\A t \in TicksInFlight : ENABLED TickResolve(t))

\* Two ticks of one run, fired one interval apart, are both in flight, and the
\* ticker has been stopped meanwhile.
C33_Witness ==
  \E t, u \in TicksInFlight :
    /\ ticks[t].by = "start" /\ ticks[u].by = "interval"
    /\ ticks[u].run = ticks[t].run
    /\ ticks[u].firedAt = ticks[t].firedAt + IntervalMs
    /\ ~ticker.isRunning
    /\ timers = {}


\* C34: for every accepted task, the task_id of the 202 acknowledgement is the
\* result.id of every callback payload pushed for that task.
C34_AckIdIsPayloadId ==
  \A t \in Handled :
    Accepted(t) =>
      \A p \in PushesOf(t) : Get(tasks[t].ack).task_id = Some(p.resultId)


\* The submission of task t passes the handler's checks and names an agent that
\* is not registered.
NamesUnknownAgent(t) ==
  /\ ValidSubmission(Get(tasks[t].sub))
  /\ Get(tasks[t].sub).agentId \notin RegisteredAgents

\* C35: a submission that passes the handler's checks but names an agent that is
\* not registered is acknowledged with 202; its background run has failed
\* without any agent work, and no callback push is made for it in any state.
C35_UnknownAgentAcceptedNeverPushed ==
  \A t \in Handled :
    NamesUnknownAgent(t) =>
      /\ Accepted(t)
      /\ Get(tasks[t].ack).status = "success"
      /\ tasks[t].bg = "failed"
      /\ ~tasks[t].agentDone
      /\ tasks[t].pushes = <<>>

\* A task naming an unknown agent was acknowledged and has pushed nothing, while
\* a later task with the same callback and a registered agent completed its push.
C35_Witness ==
  \E t, u \in Handled :
    /\ t < u
    /\ NamesUnknownAgent(t) /\ Accepted(t) /\ tasks[t].pushes = <<>>
    /\ Get(tasks[u].sub).url = Get(tasks[t].sub).url
    /\ tasks[u].bg = "completed" /\ Len(tasks[u].pushes) = 1

====
